---- MODULE Spec2Model ----
(***************************************************************************)
(* Model of yaxche-io/misinformation-crawler:                              *)
(*   - ButtonPressMiddleware (middlewares/buttonpressmiddleware.py): the   *)
(*     selenium-driven form/load button pressing, one action per session   *)
(*     operation of process_response / perform_button_pressing;            *)
(*   - extract_element and extract_article (extractors.py) as operators,   *)
(*     applied by the actions of SpecExtract and SpecArticle.              *)
(***************************************************************************)
EXTENDS Integers, Sequences, FiniteSets, TLC

VARIABLES
    \* ---- ButtonPressMiddleware ----
    seen_urls,            \* self.seen_urls
    alive,                \* the chromedriver session answers (FALSE: every call raises WebDriverException)
    dom,                  \* locators (xpaths) that match the live DOM of the driver
    page_source,          \* what driver.page_source returns now
    pc,                   \* position in process_response / perform_button_pressing
    request,              \* the (request, response) pair of the running call
    button_type,          \* argument button_type of perform_button_pressing
    form_idx,             \* position of the for loop of press_form_buttons
    button_to_press,      \* argument button_to_press of perform_button_pressing
    n_clicks_performed,   \* local of perform_button_pressing
    cached_page_source,   \* local of perform_button_pressing, returned to process_response
    html_str,             \* local of process_response
    returned,             \* how the last process_response call ended
    presses,              \* keys/clicks sent to a load button by the running load pressing (saturating)
    session_used,         \* the running call has made at least one driver operation
    nav_count,            \* per URL: how often driver.get was called for it (saturating)
    cookie_updates,       \* spider.update_cookies calls made by the running call
    \* ---- extract_element ----
    ex_spec,              \* the extract_spec argument
    ex_matches,           \* response.xpath(expression).extract()
    ex_out,               \* result, warnings and debug messages of the call
    \* ---- extract_article ----
    art_config,           \* the config argument
    art_doc,              \* what each selector of the config matches in the response
    art_out,              \* the returned Article
    art_calls,            \* the parse_to_json calls made: which selection was handed over
    \* ---- extract_datetime_string ----
    dt_library,           \* what pendulum and arrow make of the date string, per format
    dt_string,            \* the date_string argument
    dt_format,            \* the date_format argument
    dt_out                \* how the call ended: exception, returned string, parser calls made

mw_vars == <<seen_urls, alive, dom, page_source, pc, request, button_type, form_idx,
             button_to_press, n_clicks_performed, cached_page_source, html_str,
             returned, presses, session_used, nav_count, cookie_updates>>
ex_vars == <<ex_spec, ex_matches, ex_out>>
art_vars == <<art_config, art_doc, art_out, art_calls>>
dt_vars == <<dt_library, dt_string, dt_format, dt_out>>
vars == <<mw_vars, ex_vars, art_vars, dt_vars>>

None == "None"

Min(a, b) == IF a <= b THEN a ELSE b

(***************************************************************************)
(* ButtonPressMiddleware                                                   *)
(***************************************************************************)

\* self.timeout is 60 seconds: a WebDriverWait either sees its condition or
\* raises TimeoutException; the model draws the outcome.

\* The ceiling the model runs with, small enough to be reached.
MaxClicksBound == 2

\* self.max_button_clicks (10000 in the source, line 56)
max_button_clicks == MaxClicksBound

\* self.form_buttons / self.load_buttons: the first two locators of each list
\* (the source lists 5 form and 12 load locators), in list order.
form_buttons == <<"//input[contains(@class, \"agree\")]", "//button[@name=\"agree\"]">>
load_buttons == <<"//a[@class=\"load-more\"]", "//a[contains(@class, \"m-more\")]">>

Range(s) == {s[i] : i \in 1..Len(s)}
Locators == Range(form_buttons) \cup Range(load_buttons)

\* Request URLs, page sources and fetched documents the calls are drawn from.
\* A fetched document is the set of locators that match it.
Urls == {"u1", "u2"}
PageSources == {"src_a", "src_b"}
Documents == { {}, {form_buttons[1]}, {load_buttons[2]}, {form_buttons[2], load_buttons[1]} }

\* Saturation of the counters kept for the properties.
NavCap == 2
ClickCap == max_button_clicks + 1

\* response.xpath(button.xpath) on the fetched response
ResponseXpath(response, xpath) == xpath \in response.document

\* mutant: `if response.xpath(button.xpath) is not None`, true of every response
response_contains_a_button_always(response) == TRUE

response_contains_a_button(response) ==
    \E i \in 1..Len(load_buttons \o form_buttons) :
        ResponseXpath(response, (load_buttons \o form_buttons)[i])

response_contains_load_button(response) ==
    \E i \in 1..Len(load_buttons) : ResponseXpath(response, load_buttons[i])

\* get_first_button_to_press: the first button of the list that the driver
\* finds; every WebDriverException (a dead session included) is swallowed.
get_first_button_to_press(button_list) ==
    LET found == {i \in 1..Len(button_list) : alive /\ button_list[i] \in dom}
    IN  IF found = {} THEN None
        ELSE button_list[CHOOSE i \in found : \A j \in found : i <= j]

NoResult == [kind |-> "none", body |-> None, at |-> None]
\* `return response` of lines 186 and 191
Original == [kind |-> "original", body |-> None, at |-> None]

\* Entry of perform_button_pressing (lines 103-107)
StartPressing(button, type) ==
    /\ button_to_press' = button
    /\ button_type' = type
    /\ n_clicks_performed' = 0
    /\ cached_page_source' = None
    /\ presses' = 0
    /\ pc' = "cache"

\* mutant: the for loop of press_form_buttons left at the first `break`
EndPressing_leavesFormLoop ==
    IF button_type = "form"
    THEN /\ pc' = IF response_contains_load_button(request) THEN "first_load" ELSE "else_source"
         /\ UNCHANGED <<form_idx, button_to_press, button_type, n_clicks_performed,
                        cached_page_source, presses>>
    ELSE /\ pc' = "encode"
         /\ UNCHANGED <<form_idx, button_to_press, button_type, n_clicks_performed,
                        cached_page_source, presses>>

\* `break` / return of perform_button_pressing (line 170), and what its caller
\* does next: the for loop of press_form_buttons (lines 174-175), then the
\* static check of line 203; after load pressing, line 210.
EndPressing ==
    IF button_type = "form"
    THEN IF form_idx < Len(form_buttons)
         THEN /\ form_idx' = form_idx + 1
              /\ StartPressing(form_buttons[form_idx + 1], "form")
         ELSE /\ pc' = IF response_contains_load_button(request) THEN "first_load" ELSE "else_source"
              /\ UNCHANGED <<form_idx, button_to_press, button_type, n_clicks_performed,
                             cached_page_source, presses>>
    ELSE /\ pc' = "encode"
         /\ UNCHANGED <<form_idx, button_to_press, button_type, n_clicks_performed,
                        cached_page_source, presses>>

\* `continue` of the while loop, or the fall through to its next iteration
Continue ==
    /\ pc' = "cache"
    /\ UNCHANGED <<form_idx, button_to_press, button_type, n_clicks_performed,
                   cached_page_source, presses>>

\* handler of lines 156-162
GoLookup ==
    /\ pc' = "lookup"
    /\ UNCHANGED <<form_idx, button_to_press, button_type, n_clicks_performed,
                   cached_page_source, presses>>

\* an exception that no handler of process_response catches
Raise(exception) ==
    /\ pc' = "idle"
    /\ returned' = [kind |-> "raised", body |-> exception, at |-> pc]

UsesSession == session_used' = TRUE

\* mutant: the dedup test dropped
AlreadySeen_never(url) == FALSE

\* line 185: request.url in self.seen_urls
AlreadySeen(url) == url \in seen_urls

\* mutant: the URL not recorded
SeenUrlsAdd_skipped(url) == seen_urls

\* line 187: self.seen_urls.add(request.url)
SeenUrlsAdd(url) == seen_urls \cup {url}

\* process_response, lines 184-191
Call(url, document) ==
    /\ pc = "idle"
    /\ request' = [url |-> url, document |-> document]
    /\ session_used' = FALSE
    /\ cookie_updates' = 0
    /\ html_str' = None
    /\ cached_page_source' = None
    /\ n_clicks_performed' = 0
    /\ presses' = 0
    /\ button_to_press' = None
    /\ button_type' = "form"
    /\ form_idx' = 0
    /\ IF AlreadySeen(url)
       THEN /\ returned' = Original
            /\ UNCHANGED <<seen_urls, pc>>
       ELSE /\ seen_urls' = SeenUrlsAdd(url)
            /\ IF ~response_contains_a_button(request')
               THEN /\ returned' = Original
                    /\ UNCHANGED pc
               ELSE /\ returned' = NoResult
                    /\ pc' = "get"
    /\ UNCHANGED <<alive, dom, page_source, nav_count>>

\* self.driver.get(request.url), line 194, then press_form_buttons (line 200)
\* enters perform_button_pressing for the first form button
Navigate ==
    /\ pc = "get"
    /\ UsesSession
    /\ nav_count' = [nav_count EXCEPT ![request.url] = Min(@ + 1, NavCap)]
    /\ IF ~alive
       THEN /\ Raise("WebDriverException")
            /\ UNCHANGED <<dom, page_source, form_idx, button_to_press, button_type,
                           n_clicks_performed, cached_page_source, presses>>
       ELSE /\ dom' \in SUBSET Locators
            /\ page_source' \in PageSources
            /\ form_idx' = 1
            /\ StartPressing(form_buttons[1], "form")
            /\ UNCHANGED returned
    /\ UNCHANGED <<seen_urls, alive, request, html_str, cookie_updates>>

\* line 116: cached_page_source = self.driver.page_source
CachePageSource ==
    /\ pc = "cache"
    /\ UsesSession
    /\ IF alive
       THEN /\ cached_page_source' = page_source
            /\ pc' = "press"
            /\ UNCHANGED <<form_idx, button_to_press, button_type, n_clicks_performed, presses>>
       ELSE EndPressing
    /\ UNCHANGED <<seen_urls, alive, dom, page_source, request, html_str, returned,
                   nav_count, cookie_updates>>

\* lines 119-126: button_to_press.press_button(self.driver)
PressOutcomes == {"pressed", "ElementNotVisibleException", "ElementNotInteractableException",
                  "StaleElementReferenceException"}

\* mutant: the inner try of lines 122-126 around the press of every button
FormPressStops_anytype(type, exception) ==
    exception \in {"NoSuchElementException", "ElementNotInteractableException"}

\* lines 121-126: the press of a form button stops the pressing on these exceptions
FormPressStops(type, exception) ==
    /\ type = "form"
    /\ exception \in {"NoSuchElementException", "ElementNotInteractableException"}

PressButton ==
    /\ pc = "press"
    /\ UsesSession
    /\ IF button_to_press = None
       THEN \* None.press_button: AttributeError, caught nowhere
            /\ Raise("AttributeError")
            /\ UNCHANGED <<form_idx, button_to_press, button_type, n_clicks_performed,
                           cached_page_source, presses>>
       ELSE /\ UNCHANGED returned
            /\ IF ~alive
               THEN EndPressing                     \* WebDriverException, line 166
               ELSE IF button_to_press \notin dom
               THEN \* get_button raises NoSuchElementException
                    IF FormPressStops(button_type, "NoSuchElementException")
                    THEN EndPressing
                    ELSE GoLookup
               ELSE \E outcome \in PressOutcomes :
                    \/ /\ outcome = "pressed"
                       /\ presses' = IF button_type = "load" THEN Min(presses + 1, ClickCap) ELSE presses
                       /\ pc' = "location"
                       /\ UNCHANGED <<form_idx, button_to_press, button_type,
                                      n_clicks_performed, cached_page_source>>
                    \/ /\ outcome = "ElementNotVisibleException"
                       /\ pc' = "wait_visible"
                       /\ UNCHANGED <<form_idx, button_to_press, button_type,
                                      n_clicks_performed, cached_page_source, presses>>
                    \/ /\ outcome = "ElementNotInteractableException"
                       /\ IF FormPressStops(button_type, outcome)
                          THEN EndPressing
                          ELSE /\ pc' = "wait_clickable"
                               /\ UNCHANGED <<form_idx, button_to_press, button_type,
                                              n_clicks_performed, cached_page_source, presses>>
                    \/ /\ outcome = "StaleElementReferenceException"
                       /\ GoLookup
    /\ UNCHANGED <<seen_urls, alive, dom, page_source, request, html_str,
                   nav_count, cookie_updates>>

\* lines 128-138: read the button's location, count the click, stop at the ceiling
ReadLocation ==
    /\ pc = "location"
    /\ UsesSession
    /\ IF ~alive
       THEN EndPressing
       ELSE \/ GoLookup                             \* StaleElementReferenceException
            \/ /\ n_clicks_performed' = Min(n_clicks_performed + 1, ClickCap)
               /\ IF n_clicks_performed' >= max_button_clicks /\ max_button_clicks > 0
                     /\ button_type = "load"
                  THEN /\ pc' = "encode"
                       /\ UNCHANGED <<form_idx, button_to_press, button_type,
                                      cached_page_source, presses>>
                  ELSE /\ pc' = "wait_moved"
                       /\ UNCHANGED <<form_idx, button_to_press, button_type,
                                      cached_page_source, presses>>
    /\ UNCHANGED <<seen_urls, alive, dom, page_source, request, html_str, returned,
                   nav_count, cookie_updates>>

\* line 145: WebDriverWait(...).until(button_location != button.location)
WaitMoved ==
    /\ pc = "wait_moved"
    /\ UsesSession
    /\ IF ~alive
       THEN EndPressing
       ELSE \/ Continue                             \* the button moved
            \/ EndPressing                          \* TimeoutException, line 163
            \/ GoLookup                             \* StaleElementReferenceException
    /\ UNCHANGED <<seen_urls, alive, dom, page_source, request, html_str, returned,
                   nav_count, cookie_updates>>

\* lines 151 and 155: wait for the button to become visible / clickable
WaitElement ==
    /\ pc \in {"wait_visible", "wait_clickable"}
    /\ UsesSession
    /\ IF ~alive
       THEN EndPressing
       ELSE \/ /\ button_to_press \in dom
               /\ Continue
            \/ EndPressing                          \* TimeoutException, line 163
    /\ UNCHANGED <<seen_urls, alive, dom, page_source, request, html_str, returned,
                   nav_count, cookie_updates>>

\* lines 156-162: are there still buttons of the list on the page
LookupButtons ==
    /\ pc = "lookup"
    /\ UsesSession
    /\ IF get_first_button_to_press(IF button_type = "form" THEN form_buttons ELSE load_buttons) # None
       THEN Continue
       ELSE EndPressing
    /\ UNCHANGED <<seen_urls, alive, dom, page_source, request, html_str, returned,
                   nav_count, cookie_updates>>

\* line 204: perform_button_pressing(self.get_first_button_to_press(self.load_buttons), ...)
FirstLoadButton ==
    /\ pc = "first_load"
    /\ UsesSession
    /\ StartPressing(get_first_button_to_press(load_buttons), "load")
    /\ UNCHANGED <<seen_urls, alive, dom, page_source, request, html_str, returned,
                   nav_count, cookie_updates, form_idx>>

\* line 206: cached_page_source = self.driver.page_source
ElseSource ==
    /\ pc = "else_source"
    /\ UsesSession
    /\ IF alive
       THEN /\ cached_page_source' = page_source
            /\ pc' = "encode"
            /\ UNCHANGED returned
       ELSE /\ Raise("WebDriverException")
            /\ UNCHANGED cached_page_source
    /\ UNCHANGED <<seen_urls, alive, dom, page_source, request, html_str, nav_count,
                   cookie_updates, form_idx, button_to_press, button_type,
                   n_clicks_performed, presses>>

\* lines 209-212
Encode ==
    /\ pc = "encode"
    /\ UsesSession
    /\ IF alive
       THEN /\ html_str' = page_source
            /\ pc' = "cookies"
            /\ UNCHANGED returned
       ELSE IF cached_page_source = None
       THEN \* None.encode: AttributeError
            /\ Raise("AttributeError")
            /\ UNCHANGED html_str
       ELSE /\ html_str' = cached_page_source
            /\ pc' = "cookies"
            /\ UNCHANGED returned
    /\ UNCHANGED <<seen_urls, alive, dom, page_source, request, cached_page_source,
                   nav_count, cookie_updates, form_idx, button_to_press, button_type,
                   n_clicks_performed, presses>>

\* lines 216-217
UpdateCookiesAndReturn ==
    /\ pc = "cookies"
    /\ UsesSession
    /\ IF alive
       THEN /\ cookie_updates' = cookie_updates + 1
            /\ pc' = "idle"
            /\ returned' = [kind |-> "html", body |-> html_str, at |-> None]
       ELSE /\ Raise("WebDriverException")
            /\ UNCHANGED cookie_updates
    /\ UNCHANGED <<seen_urls, alive, dom, page_source, request, html_str,
                   cached_page_source, nav_count, form_idx, button_to_press, button_type,
                   n_clicks_performed, presses>>

\* The page: its DOM and source change under the driver while it is open.
PageChanges ==
    /\ pc \notin {"idle", "get"}
    /\ alive
    /\ dom' \in SUBSET Locators
    /\ page_source' \in PageSources
    /\ <<dom', page_source'>> # <<dom, page_source>>
    /\ UNCHANGED <<seen_urls, alive, pc, request, button_type, form_idx, button_to_press,
                   n_clicks_performed, cached_page_source, html_str, returned, presses,
                   session_used, nav_count, cookie_updates>>

\* The browser session is lost.
SessionLost ==
    /\ alive
    /\ alive' = FALSE
    /\ UNCHANGED <<seen_urls, dom, page_source, pc, request, button_type, form_idx,
                   button_to_press, n_clicks_performed, cached_page_source, html_str,
                   returned, presses, session_used, nav_count, cookie_updates>>

MwInit ==
    /\ seen_urls = {}
    /\ alive = TRUE
    /\ dom = {}
    /\ page_source = "src_a"
    /\ pc = "idle"
    /\ request = [url |-> None, document |-> {}]
    /\ button_type = "form"
    /\ form_idx = 0
    /\ button_to_press = None
    /\ n_clicks_performed = 0
    /\ cached_page_source = None
    /\ html_str = None
    /\ returned = NoResult
    /\ presses = 0
    /\ session_used = FALSE
    /\ nav_count = [u \in Urls |-> 0]
    /\ cookie_updates = 0

ExIdle ==
    /\ ex_spec = <<>>
    /\ ex_matches = <<>>
    /\ ex_out = <<>>

ArtIdle ==
    /\ art_config = <<>>
    /\ art_doc = <<>>
    /\ art_out = <<>>
    /\ art_calls = <<>>

DtIdle ==
    /\ dt_library = <<>>
    /\ dt_string = <<>>
    /\ dt_format = <<>>
    /\ dt_out = <<>>

Init == MwInit /\ ExIdle /\ ArtIdle /\ DtIdle

\* the extractors take no part in a middleware step
ExtractorsIdle == UNCHANGED <<ex_vars, art_vars, dt_vars>>

\* the steps of a running process_response call
Step ==
    \/ Navigate /\ ExtractorsIdle
    \/ CachePageSource /\ ExtractorsIdle
    \/ PressButton /\ ExtractorsIdle
    \/ ReadLocation /\ ExtractorsIdle
    \/ WaitMoved /\ ExtractorsIdle
    \/ WaitElement /\ ExtractorsIdle
    \/ LookupButtons /\ ExtractorsIdle
    \/ FirstLoadButton /\ ExtractorsIdle
    \/ ElseSource /\ ExtractorsIdle
    \/ Encode /\ ExtractorsIdle
    \/ UpdateCookiesAndReturn /\ ExtractorsIdle

Next ==
    \/ \E url \in Urls, document \in Documents : Call(url, document) /\ ExtractorsIdle
    \/ Step
    \/ PageChanges /\ ExtractorsIdle
    \/ SessionLost /\ ExtractorsIdle

Spec == Init /\ [][Next]_vars

\* The crawler runs process_response to its end: a started call keeps stepping.
\* The page and the callers are under no obligation.
FairSpec == Init /\ [][Next]_vars /\ WF_vars(Step)

(***************************************************************************)
(* extract_element                                                         *)
(* A string is a sequence of characters; " " stands for any whitespace.    *)
(***************************************************************************)

\* Bounds of the inputs
MaxMatches == 3

\* the strings a selector match is drawn from
RawStrings == { <<>>, <<" ">>, <<"a">>, <<"b">>, <<" ", "a">>, <<"b", "a", " ">>, <<"a", "b">> }

MatchSeqs == UNION {[1..n -> RawStrings] : n \in 0..MaxMatches}

SelectMethods == {"xpath", "css"}
MatchRules == {"single", "first", "last", "largest", "concatenate", "comma_join",
               "group", "all", "bogus"}

\* an extract_spec is a dict: match_rule and warn_if_missing may be missing
ExtractSpecs ==
    { [select_method |-> m, select_expression |-> "expr"] @@ r @@ w :
        m \in SelectMethods,
        r \in {<<>>} \cup {[match_rule |-> x] : x \in MatchRules},
        w \in {<<>>} \cup {[warn_if_missing |-> x] : x \in BOOLEAN} }

\* the values extract_element returns: None, a string or a list of strings
ResNone == [kind |-> "None", value |-> <<>>]
Str(s) == [kind |-> "str", value |-> s]
List(l) == [kind |-> "list", value |-> l]

\* str.strip()
RECURSIVE lstrip(_)
lstrip(s) == IF s # <<>> /\ Head(s) = " " THEN lstrip(Tail(s)) ELSE s
RECURSIVE rstrip(_)
rstrip(s) == IF s # <<>> /\ s[Len(s)] = " " THEN rstrip(SubSeq(s, 1, Len(s) - 1)) ELSE s
strip(s) == rstrip(lstrip(s))

NonEmpty(x) == x # <<>>

\* mutant: the empty strings of the list dropped
StripAll_nonblank(elements) ==
    SelectSeq([i \in 1..Len(elements) |-> strip(elements[i])], NonEmpty)

\* line 44: [item.strip() for item in elements]
StripAll(elements) == [i \in 1..Len(elements) |-> strip(elements[i])]

\* dict.get(key, default)
DictGet(dict, key, default) == IF key \in DOMAIN dict THEN dict[key] ELSE default

\* sorted(elements, key=len): a stable sort, by insertion from the left
RECURSIVE InsertByLen(_, _)
InsertByLen(sorted, elem) ==
    IF sorted = <<>> THEN <<elem>>
    ELSE IF Len(sorted[Len(sorted)]) <= Len(elem) THEN Append(sorted, elem)
    ELSE Append(InsertByLen(SubSeq(sorted, 1, Len(sorted) - 1), elem), sorted[Len(sorted)])
RECURSIVE SortedByLen(_)
SortedByLen(elements) ==
    IF elements = <<>> THEN <<>>
    ELSE InsertByLen(SortedByLen(SubSeq(elements, 1, Len(elements) - 1)), elements[Len(elements)])

\* mutant: max(elements, key=len), which keeps the first of the longest
Largest_max(elements) ==
    elements[CHOOSE i \in 1..Len(elements) :
                /\ \A j \in 1..Len(elements) : Len(elements[j]) <= Len(elements[i])
                /\ \A j \in 1..(i - 1) : Len(elements[j]) < Len(elements[i])]

\* line 76: sorted(elements, key = lambda elem: len(elem))[-1]
Largest(elements) == SortedByLen(elements)[Len(elements)]

\* separator.join(strings)
RECURSIVE Join(_, _)
Join(strings, separator) ==
    IF strings = <<>> THEN <<>>
    ELSE IF Len(strings) = 1 THEN strings[1]
    ELSE strings[1] \o separator \o Join(Tail(strings), separator)

\* line 80: ", ".join([x for x in elements if x])
Concatenate(elements) == Join(SelectSeq(elements, NonEmpty), <<",", " ">>)

\* line 84: "<div>" + "".join(elements) + "</div>"
Group(elements) == <<"<div>">> \o Join(elements, <<>>) \o <<"</div>">>

\* mutant: the comparison inverted, `num_matches == 1`
SingleWarnings_inverted(num_matches, warn_if_missing) ==
    IF num_matches = 1 /\ warn_if_missing THEN 1 ELSE 0

\* lines 61-67: the warning of match_rule 'single'
SingleWarnings(num_matches, warn_if_missing) ==
    IF num_matches # 1 /\ warn_if_missing THEN 1 ELSE 0

\* mutant: no warning for a selector without matches
MissingWarnings_never(warn_if_missing) == 0

\* lines 48-54: the warning for a selector without matches
MissingWarnings(warn_if_missing) == IF warn_if_missing THEN 1 ELSE 0

\* mutant: the blank string returned as it is
BlankToNone_kept(out) == out

\* lines 98-101: return None if we matched to a blank string
BlankToNone(out) ==
    IF out.result.kind = "str" /\ out.result.value = <<>>
    THEN [out EXCEPT !.result = ResNone]
    ELSE out

\* lines 24-101. `matches` is response.xpath(expression).extract().
\* Result: the returned value and the numbers of logging.warning and
\* logging.debug calls made.
extract_element(matches, extract_spec) ==
    LET method == extract_spec.select_method
        match_rule == DictGet(extract_spec, "match_rule", "single")
        warn_if_missing == DictGet(extract_spec, "warn_if_missing", TRUE)
        elements == StripAll(matches)
        num_matches == Len(elements)
        out ==
            IF method = "xpath"
            THEN IF num_matches = 0
                 THEN [result |-> ResNone, warnings |-> MissingWarnings(warn_if_missing), debugs |-> 0]
                 ELSE CASE match_rule = "single" ->
                             [result |-> Str(elements[1]),
                              warnings |-> SingleWarnings(num_matches, warn_if_missing), debugs |-> 0]
                        [] match_rule = "first" ->
                             [result |-> Str(elements[1]), warnings |-> 0, debugs |-> 0]
                        [] match_rule = "last" ->
                             [result |-> Str(elements[num_matches]), warnings |-> 0, debugs |-> 0]
                        [] match_rule = "largest" ->
                             [result |-> Str(Largest(elements)), warnings |-> 0, debugs |-> 0]
                        [] match_rule = "concatenate" ->
                             [result |-> Str(Concatenate(elements)), warnings |-> 0, debugs |-> 0]
                        [] match_rule = "group" ->
                             [result |-> Str(Group(elements)), warnings |-> 0, debugs |-> 0]
                        [] match_rule = "all" ->
                             [result |-> List(elements), warnings |-> 0, debugs |-> 0]
                        [] OTHER ->
                             [result |-> ResNone, warnings |-> 0, debugs |-> 1]
            ELSE [result |-> ResNone, warnings |-> 0, debugs |-> 1]
    IN  BlankToNone(out)

NotCalled == [result |-> ResNone, warnings |-> -1, debugs |-> -1]

ExInit ==
    /\ ex_spec \in ExtractSpecs
    /\ ex_matches \in MatchSeqs
    /\ ex_out = NotCalled

\* one call of extract_element(response, extract_spec)
ExtractElementCall ==
    /\ ex_out = NotCalled
    /\ ex_out' = extract_element(ex_matches, ex_spec)
    /\ UNCHANGED <<ex_spec, ex_matches, mw_vars, art_vars, dt_vars>>

InitExtract == MwInit /\ ExInit /\ ArtIdle /\ DtIdle

NextExtract == ExtractElementCall

SpecExtract == InitExtract /\ [][NextExtract]_vars

(***************************************************************************)
(* extract_element on an extract_spec that lists remove_expressions        *)
(* (tests test_remove_single_expression, test_remove_multiple_nested_      *)
(* expressions). An HTML string is a sequence of tokens: opening tags,     *)
(* "</div>" and the text "t".                                              *)
(***************************************************************************)

\* the classes of the <div> elements of the tests' documents
HtmlClasses == {"post-content", "social", "bad"}

OpenTag(class) == "<div class=" \o class \o ">"

\* the element <div class=...> inner </div>
Wrap(class, inner) == <<OpenTag(class)>> \o inner \o <<"</div>">>

\* what '//div[@class="post-content"]' extracts: a post-content element that
\* holds text and elements nested up to three deep, in every order of classes
HtmlFragments ==
    LET h0 == { <<"t">> }
        h1 == h0 \cup { Wrap(c, x) : c \in HtmlClasses, x \in h0 }
        h2 == h1 \cup { Wrap(c, x \o y) : c \in HtmlClasses, x \in h1, y \in h0 \cup {<<>>} }
    IN  { Wrap("post-content", x \o y) : x \in h2, y \in h1 \cup {<<>>} }

\* the remove_expressions lists: one expression, two in either order, one twice
RemoveExpressionLists ==
    { << "social" >>, << "bad" >>, << "social", "bad" >>, << "bad", "social" >>,
      << "social", "social" >>, << "bad", "bad" >> }

RemovalSpecs ==
    { [select_method |-> "xpath", select_expression |-> "expr", match_rule |-> "first",
       remove_expressions |-> r] : r \in RemoveExpressionLists }

RemovalInit ==
    /\ ex_spec \in RemovalSpecs
    /\ ex_matches \in { <<h>> : h \in HtmlFragments }
    /\ ex_out = NotCalled

InitRemoval == MwInit /\ RemovalInit /\ ArtIdle /\ DtIdle

SpecRemoval == InitRemoval /\ [][NextExtract]_vars

(***************************************************************************)
(* extract_datetime_string                                                 *)
(* A format is None or a string (sequence of characters). What the         *)
(* libraries make of a date string is given by `library`: the formats      *)
(* under which pendulum.from_format / pendulum.parse and arrow.get parse   *)
(* it (None standing for the ISO-8601 parse without a format), and how     *)
(* pendulum.from_timestamp(int(date_string)) ends.                         *)
(***************************************************************************)

\* Bound of the inputs: the number of formats under which arrow parses the string
MaxParsed == 2

Max(a, b) == IF a >= b THEN a ELSE b

Chars(string) ==
    CASE string = "unix" -> <<"u", "n", "i", "x">>
      [] string = "milliseconds" -> <<"m", "i", "l", "l", "i", "s", "e", "c", "o", "n", "d", "s">>
      [] string = "YY" -> <<"Y", "Y">>
      [] string = "MM" -> <<"M", "M">>
      [] string = "DD" -> <<"D", "D">>

\* the format of the tests' configs, 'DD/MM/YY'
ConfigFormat == Chars("DD") \o <<"/">> \o Chars("MM") \o <<"/">> \o Chars("YY")

\* the format hints a call is given
DateFormats ==
    { ResNone, Str(<<>>), Str(<<"Y">>), Str(Chars("YY")),
      Str(Chars("YY") \o <<"/">> \o Chars("MM")),
      Str(Chars("MM") \o <<"-">> \o Chars("YY")),
      Str(Chars("YY") \o <<".">> \o Chars("MM") \o <<".">> \o Chars("YY")),
      Str(Chars("unix")),
      Str(Chars("unix") \o <<" ">> \o Chars("milliseconds")) }

\* `if date_format:`
Truthy(format) == format.kind = "str" /\ format.value # <<>>

\* a format with its two-digit years widened at the start, at the end, or both
Widenings(format) ==
    IF format.kind = "str"
    THEN { Str(a \o format.value \o b) : a \in {<<>>, Chars("YY")}, b \in {<<>>, Chars("YY")} }
    ELSE { format }

\* the raw inputs: a string or None
DateStrings == { Str(<<"d">>), ResNone }

Libraries(format) ==
    { [pendulum |-> p, arrow |-> a, timestamp |-> t] :
        p \in { {}, {IF Truthy(format) THEN format ELSE ResNone} },
        a \in { x \in SUBSET (Widenings(format) \cup {ResNone}) : Cardinality(x) <= MaxParsed },
        t \in {"ok", "ValueError", "OverflowError"} }

\* `sub in string`
Contains(string, sub) ==
    \E i \in 1..(Len(string) - Len(sub) + 1) : SubSeq(string, i, i + Len(sub) - 1) = sub

\* the datetime objects of pendulum and arrow
NoDatetime == [kind |-> "None", parser |-> None, format |-> ResNone]
Datetime(parser, format) == [kind |-> "datetime", parser |-> parser, format |-> format]

\* datetime.format('YYYY-MM-DDTHH:mm:ss')
Format(datetime) ==
    Str(<<datetime.parser>> \o datetime.format.value \o <<"YYYY-MM-DDTHH:mm:ss">>)

\* how a parser function ends: the exception that leaves it, or the datetime
\* it returns, and the library calls it made
Raised(exception, calls) == [raised |-> exception, datetime |-> NoDatetime, calls |-> calls]
Returned(datetime, calls) == [raised |-> None, datetime |-> datetime, calls |-> calls]

LibraryCall(parser, format) == [parser |-> parser, format |-> format]

\* lines 124-139. The except clause catches ValueError, TypeError and
\* RuntimeError: the TypeError of a date_string that is no string, the
\* ValueError of int() or of a format that does not fit. An epoch beyond the
\* platform's time_t leaves datetime.utcfromtimestamp as OverflowError.
pendulum_datetime_extract(library, date_string, date_format) ==
    LET calls == << LibraryCall("pendulum", date_format) >>
    IN  IF Truthy(date_format)
        THEN IF Contains(date_format.value, Chars("unix"))
             THEN IF date_string.kind # "str" THEN Returned(NoDatetime, calls)
                  ELSE CASE library.timestamp = "ok" ->
                                Returned(Datetime("pendulum", date_format), calls)
                         [] library.timestamp = "ValueError" -> Returned(NoDatetime, calls)
                         [] OTHER -> Raised(library.timestamp, calls)
             ELSE IF date_string.kind = "str" /\ date_format \in library.pendulum
                  THEN Returned(Datetime("pendulum", date_format), calls)
                  ELSE Returned(NoDatetime, calls)
        ELSE IF date_string.kind = "str" /\ ResNone \in library.pendulum
             THEN Returned(Datetime("pendulum", ResNone), calls)
             ELSE Returned(NoDatetime, calls)

\* mutant: the separator '.' forgotten
arrow_separators_nodot == {"-", "/"}

\* line 149
arrow_separators == {"-", "/", "."}

\* mutant: the year widened by four characters
WidenStart_four(date_format) == Chars("YY") \o Chars("YY") \o date_format

\* line 151: "YY{}".format(date_format)
WidenStart(date_format) == Chars("YY") \o date_format

\* line 153: "{}YY".format(date_format)
WidenEnd(date_format) == date_format \o Chars("YY")

\* line 150: date_format[:2] == 'YY' and date_format[2] in arrow_separators
\* An index beyond the string raises IndexError.
YearAtStart(date_format) ==
    IF SubSeq(date_format, 1, Min(2, Len(date_format))) = Chars("YY")
    THEN IF Len(date_format) < 3 THEN "IndexError"
         ELSE IF date_format[3] \in arrow_separators THEN "True" ELSE "False"
    ELSE "False"

\* line 152: date_format[-2:] == 'YY' and date_format[-3] in arrow_separators
YearAtEnd(date_format) ==
    IF SubSeq(date_format, Max(1, Len(date_format) - 1), Len(date_format)) = Chars("YY")
    THEN IF Len(date_format) < 3 THEN "IndexError"
         ELSE IF date_format[Len(date_format) - 2] \in arrow_separators THEN "True" ELSE "False"
    ELSE "False"

\* lines 156-164: arrow.get with or without the format; its errors are caught
ArrowGet(library, date_string, date_format, calls) ==
    LET key == IF Truthy(date_format) THEN date_format ELSE ResNone
        made == Append(calls, LibraryCall("arrow", key))
    IN  IF date_string.kind = "str" /\ key \in library.arrow
        THEN Returned(Datetime("arrow", key), made)
        ELSE Returned(NoDatetime, made)

\* lines 142-165
RECURSIVE arrow_datetime_extract(_, _, _)
arrow_datetime_extract(library, date_string, date_format) ==
    IF ~Truthy(date_format)
    THEN ArrowGet(library, date_string, date_format, <<>>)
    ELSE
    LET at_start == YearAtStart(date_format.value)
        first == IF at_start = "True"
                 THEN arrow_datetime_extract(library, date_string,
                          Str(WidenStart(date_format.value)))
                 ELSE Returned(NoDatetime, <<>>)
    IN  IF at_start = "IndexError" THEN Raised("IndexError", <<>>)
        ELSE IF first.raised # None THEN first
        ELSE IF first.datetime.kind # "None" THEN first
        ELSE
        LET at_end == YearAtEnd(date_format.value)
            second == IF at_end = "True"
                      THEN arrow_datetime_extract(library, date_string,
                               Str(WidenEnd(date_format.value)))
                      ELSE Returned(NoDatetime, <<>>)
            calls == first.calls \o second.calls
        IN  IF at_end = "IndexError" THEN Raised("IndexError", first.calls)
            ELSE IF second.raised # None THEN Raised(second.raised, calls)
            ELSE IF second.datetime.kind # "None" THEN Returned(second.datetime, calls)
            ELSE ArrowGet(library, date_string, date_format, calls)

\* lines 104-121, timezone=False: the exception that leaves the call, or the
\* returned string (value), and the library calls made
extract_datetime_string(library, date_string, date_format) ==
    LET strict == pendulum_datetime_extract(library, date_string, date_format)
        lenient == arrow_datetime_extract(library, date_string, date_format)
        Result(outcome, calls) ==
            [raised |-> outcome.raised,
             value |-> IF outcome.raised = None /\ outcome.datetime.kind # "None"
                       THEN Format(outcome.datetime) ELSE ResNone,
             calls |-> calls]
    IN  IF strict.raised # None \/ strict.datetime.kind # "None"
        THEN Result(strict, strict.calls)
        ELSE Result(lenient, strict.calls \o lenient.calls)

DtNotCalled == [raised |-> None, value |-> ResNone, calls |-> <<>>]

DtInit ==
    /\ dt_format \in DateFormats
    /\ dt_string \in DateStrings
    /\ dt_library \in Libraries(dt_format)
    /\ dt_out = DtNotCalled

\* one call of extract_datetime_string(date_string, date_format)
ExtractDatetimeCall ==
    /\ dt_out = DtNotCalled
    /\ dt_out' = extract_datetime_string(dt_library, dt_string, dt_format)
    /\ UNCHANGED <<dt_library, dt_string, dt_format, mw_vars, ex_vars, art_vars>>

InitDatetime == MwInit /\ ExIdle /\ ArtIdle /\ DtInit

NextDatetime == ExtractDatetimeCall

SpecDatetime == InitDatetime /\ [][NextDatetime]_vars

(***************************************************************************)
(* extract_article                                                         *)
(***************************************************************************)

\* lines 15-22
xpath_extract_spec(xpath_expression, match_rule, warn_if_missing) ==
    [select_method |-> "xpath", select_expression |-> xpath_expression,
     match_rule |-> match_rule, warn_if_missing |-> warn_if_missing]

ArticleFields == {"title", "byline", "publication_datetime", "content"}

\* the publication_datetime spec of a config: without a format, with the key
\* 'datetime-format', or with the key 'datetime_formats'
PublicationSpecs ==
    LET base == [select_method |-> "xpath", select_expression |-> "x_date", match_rule |-> "single"]
    IN  { base,
          ("datetime-format" :> ConfigFormat) @@ base,
          ("datetime_formats" :> << ConfigFormat >>) @@ base }

ArticleSpecs(publication_spec) ==
    [title |-> xpath_extract_spec("x_title", "single", TRUE),
     byline |-> xpath_extract_spec("x_byline", "single", TRUE),
     publication_datetime |-> publication_spec,
     content |-> xpath_extract_spec("x_content", "single", TRUE)]

ArticleSections ==
    { [k \in fields |-> ArticleSpecs(p)[k]] : fields \in SUBSET ArticleFields, p \in PublicationSpecs }

MetadataSpecs ==
    [keywords |-> xpath_extract_spec("x_keywords", "all", FALSE),
     author |-> xpath_extract_spec("x_author", "single", FALSE)]

MetadataSections == { [k \in fields |-> MetadataSpecs[k]] : fields \in {{}, {"keywords", "author"}} }

\* the site configs: with or without an `article` and a `metadata` section
Configs ==
    { [site_name |-> "example.com"] @@ a @@ m :
        a \in {<<>>} \cup {[article |-> x] : x \in ArticleSections},
        m \in {<<>>} \cup {[metadata |-> x] : x \in MetadataSections} }

Expressions == {"/html", "x_title", "x_byline", "x_date", "x_content", "x_keywords", "x_author"}

\* A response: its URL, what each selector matches in it (a document has one
\* root element; the content selector may match a blank string), and the
\* formats under which pendulum and arrow can parse the date string it holds.
Responses ==
    { [url |-> "http://example.com", matches |-> m, pendulum |-> p, arrow |-> a,
       timestamp |-> "ok"] :
        m \in { f \in [Expressions -> { <<>>, << <<"a">> >>, << <<" ">> >> }] :
                  /\ f["/html"] = << <<"a">> >>
                  /\ \A e \in Expressions \ {"x_content"} : f[e] # << <<" ">> >> },
        p \in { {}, {Str(ConfigFormat)} },
        a \in { {}, {ResNone}, {Str(ConfigFormat \o <<"Y", "Y">>)} } }

\* response.xpath(expression).extract()
XpathExtract(response, expression) == response.matches[expression]

\* extract_element(response, extract_spec): the returned value
ExtractValue(response, extract_spec) ==
    extract_element(XpathExtract(response, extract_spec.select_expression), extract_spec).result

\* parse_to_json(html, content_digests, node_indexes, False) of ReadabiliPy
parse_to_json(html) ==
    [f \in {"title", "byline", "content", "plain_content", "plain_text"} |->
        [kind |-> "readability", value |-> <<f>> \o html.value]]

\* article[key] = value
SetItem(article, key, value) == (key :> value) @@ article

\* the selection handed to parse_to_json: the expression that selected it and its HTML
Selection(response, extract_spec) ==
    [expression |-> extract_spec.select_expression, html |-> ExtractValue(response, extract_spec)]

\* lines 176-177
page_spec == xpath_extract_spec("/html", "largest", TRUE)

\* mutant: readability run on the whole page first, whatever the config holds
ReadabilityInputs_pageFirst(response, config) ==
    <<Selection(response, page_spec)>> \o
    (IF "article" \in DOMAIN config /\ "content" \in DOMAIN config.article
        /\ ExtractValue(response, config.article.content).kind # "None"
     THEN <<Selection(response, config.article.content)>>
     ELSE <<>>)

\* lines 202-205 and 212: the parse_to_json calls of one extract_article call
ReadabilityInputs(response, config) ==
    IF "article" \in DOMAIN config
    THEN IF "content" \in DOMAIN config.article
            /\ ExtractValue(response, config.article.content).kind # "None"
         THEN <<Selection(response, config.article.content)>>
         ELSE <<>>
    ELSE <<Selection(response, page_spec)>>

\* lines 180-212: the `article` section of the config, or the whole page
ExtractFields(response, config, article) ==
    LET inputs == ReadabilityInputs(response, config)
    IN
    IF "article" \in DOMAIN config
    THEN LET section == config.article
             a1 == IF "title" \in DOMAIN section
                   THEN SetItem(article, "title", ExtractValue(response, section.title))
                   ELSE article
             a2 == IF "byline" \in DOMAIN section
                   THEN SetItem(a1, "byline", ExtractValue(response, section.byline))
                   ELSE a1
             a3 == IF "publication_datetime" \in DOMAIN section
                   THEN LET datetime_string == ExtractValue(response, section.publication_datetime)
                            iso_string ==
                                IF "datetime-format" \in DOMAIN section.publication_datetime
                                THEN extract_datetime_string(response, datetime_string,
                                         Str(section.publication_datetime["datetime-format"])).value
                                ELSE extract_datetime_string(response, datetime_string, ResNone).value
                        IN  SetItem(a2, "publication_datetime", iso_string)
                   ELSE a2
             a4 == IF "content" \in DOMAIN section
                   THEN LET article_html == ExtractValue(response, section.content)
                        IN  IF article_html.kind # "None"
                            THEN LET custom_readability_article == parse_to_json(inputs[1].html)
                                 IN  SetItem(SetItem(SetItem(a3,
                                        "content", custom_readability_article.content),
                                        "plain_content", custom_readability_article.plain_content),
                                        "plain_text", custom_readability_article.plain_text)
                            ELSE a3
                   ELSE a3
         IN  a4
    ELSE LET default_readability_article == parse_to_json(inputs[1].html)
         IN  SetItem(SetItem(SetItem(SetItem(SetItem(article,
                "title", default_readability_article.title),
                "byline", default_readability_article.byline),
                "content", default_readability_article.content),
                "plain_content", default_readability_article.plain_content),
                "plain_text", default_readability_article.plain_text)

\* mutant: an empty dict for a config without a metadata section
ExtractMetadata_emptyDict(response, config, article) ==
    IF "metadata" \in DOMAIN config
    THEN SetItem(article, "metadata",
            [kind |-> "dict",
             value |-> [fieldname \in DOMAIN config.metadata |->
                           ExtractValue(response, config.metadata[fieldname])]])
    ELSE SetItem(article, "metadata", [kind |-> "dict", value |-> <<>>])

\* lines 215-221
ExtractMetadata(response, config, article) ==
    IF "metadata" \in DOMAIN config
    THEN SetItem(article, "metadata",
            [kind |-> "dict",
             value |-> [fieldname \in DOMAIN config.metadata |->
                           ExtractValue(response, config.metadata[fieldname])]])
    ELSE article

\* `if key not in article: article[other] = None`
DefaultIfMissing(article, key, other) ==
    IF key \notin DOMAIN article THEN SetItem(article, other, ResNone) ELSE article

\* lines 228-242: the fields without data are set to None
SetDefaults(article) ==
    LET d1 == DefaultIfMissing(article, "title", "title")
        d2 == DefaultIfMissing(d1, "byline", "byline")
        d3 == DefaultIfMissing(d2, "publication_datetime", "publication_datetime")
        d4 == DefaultIfMissing(d3, "content", "content")
        d5 == DefaultIfMissing(d4, "plain_content", "plain_content")
        d6 == DefaultIfMissing(d5, "plain_content", "plain_text")    \* lines 239-240
        d7 == DefaultIfMissing(d6, "metadata", "metadata")
    IN  d7

\* lines 168-244, with crawl_info=None
extract_article(response, config) ==
    LET article == [site_name |-> [kind |-> "str", value |-> config.site_name],
                    article_url |-> [kind |-> "str", value |-> response.url]]
    IN  SetDefaults(ExtractMetadata(response, config, ExtractFields(response, config, article)))

ArtInit ==
    /\ art_config \in Configs
    /\ art_doc \in Responses
    /\ art_out = <<>>
    /\ art_calls = <<>>

\* one call of extract_article(response, config)
ExtractArticleCall ==
    /\ art_out = <<>>
    /\ art_out' = extract_article(art_doc, art_config)
    /\ art_calls' = ReadabilityInputs(art_doc, art_config)
    /\ UNCHANGED <<art_config, art_doc, mw_vars, ex_vars, dt_vars>>

InitArticle == MwInit /\ ExIdle /\ ArtInit /\ DtIdle

NextArticle == ExtractArticleCall

SpecArticle == InitArticle /\ [][NextArticle]_vars

(***************************************************************************)
(* Properties of ButtonPressMiddleware                                     *)
(***************************************************************************)

LoopPositions == {"cache", "press", "location", "wait_moved", "wait_visible",
                  "wait_clickable", "lookup"}

\* perform_button_pressing is running for the load buttons
InLoadPressing == button_type = "load" /\ pc \in LoopPositions

\* the fetched response matches one of the known locators
MatchesKnownLocator(response) == response.document \cap Locators # {}

\* a process_response call has ended (by return or by raising)
CallEnded == pc = "idle" /\ request.url \in Urls

\* C2: no execution of process_response ends by raising.
C2_NeverRaises == returned.kind # "raised"

\* the pressed load button is gone from the page while another load locator matches
PressedGoneOtherMatches ==
    /\ button_to_press \notin dom
    /\ get_first_button_to_press(load_buttons) # None

\* C3: the load-button pressing loop terminates when the pressed button has
\* disappeared while a different load-button locator still matches the page:
\* the loop is not left running in that situation for ever.
C3_LoadPressingTerminates == []<>(~(InLoadPressing /\ PressedGoneOtherMatches))

\* C4: when the fetched response matches no known locator, process_response
\* returns the original response and makes no browser-session operation.
C4_NoButtonNoSession ==
    (request.url \in Urls /\ ~MatchesKnownLocator(request)) =>
        (pc = "idle" /\ returned = Original /\ ~session_used)

C4_Witness ==
    /\ CallEnded
    /\ ~MatchesKnownLocator(request)
    /\ request.url \in seen_urls
    /\ returned = Original
    /\ \E u \in Urls : nav_count[u] = 1

\* C5: the session is driven at most once per distinct request URL and only
\* for a response that matches a known locator; a call for a URL that was
\* already processed returns its response unchanged with no session operation.
C5_DrivenOnlyForButtons ==
    /\ \A u \in Urls : nav_count[u] <= 1 /\ (nav_count[u] = 1 => u \in seen_urls)
    /\ session_used => MatchesKnownLocator(request)

C5_SeenUrlReturnsUnchanged ==
    (pc = "idle" /\ alive' = alive /\ request'.url \in seen_urls) =>
        (pc' = "idle" /\ returned' = Original /\ session_used' = FALSE
         /\ nav_count' = nav_count /\ dom' = dom /\ page_source' = page_source)

C5_DrivenOncePerUrl == []C5_DrivenOnlyForButtons /\ [][C5_SeenUrlReturnsUnchanged]_vars

\* a second call for a URL whose first call drove the session has returned
C5_Witness ==
    /\ CallEnded
    /\ nav_count[request.url] = 1
    /\ returned = Original
    /\ MatchesKnownLocator(request)

\* C6: in a run of load-button pressing the number of presses performed never
\* exceeds max_button_clicks, and at the ceiling the run ends without waiting.
C6_PressesWithinCeiling ==
    button_type = "load" =>
        /\ presses <= max_button_clicks
        /\ n_clicks_performed <= max_button_clicks
        /\ (n_clicks_performed = max_button_clicks => pc \notin LoopPositions)

\* C7: once driver.get has loaded the page, the call ends with a response whose
\* body is a page source: the live one, or the cached one when the live fetch
\* fails, whenever the session becomes unreachable.
C7_BodyIsLastKnownSource ==
    (CallEnded /\ session_used /\ returned.at # "get") =>
        (returned.kind = "html" /\ returned.body \in PageSources)

(***************************************************************************)
(* Properties of extract_element                                           *)
(***************************************************************************)

\* extract_element has been called with select_method xpath and this match rule
XpathCall(rule) ==
    /\ ex_out # NotCalled
    /\ ex_spec.select_method = "xpath"
    /\ DictGet(ex_spec, "match_rule", "single") = rule

\* a string as extract_element returns it: null in place of ""
NoneIfBlank(s) == IF s = <<>> THEN ResNone ELSE Str(s)

\* the places of the first and of the last of the longest strings
FirstLongest(strings) ==
    CHOOSE i \in 1..Len(strings) :
        /\ \A j \in 1..Len(strings) : Len(strings[j]) <= Len(strings[i])
        /\ \A j \in 1..(i - 1) : Len(strings[j]) < Len(strings[i])
LastLongest(strings) ==
    CHOOSE i \in 1..Len(strings) :
        /\ \A j \in 1..Len(strings) : Len(strings[j]) <= Len(strings[i])
        /\ \A j \in (i + 1)..Len(strings) : Len(strings[j]) < Len(strings[i])

\* C8: match_rule comma_join returns, for every non-empty sequence of matches,
\* what concatenate returns: the non-empty trimmed matches joined with ", ".
C8_CommaJoinIsConcatenate ==
    (XpathCall("comma_join") /\ Len(ex_matches) > 0) =>
        /\ ex_out.result = extract_element(ex_matches, [ex_spec EXCEPT !.match_rule = "concatenate"]).result
        /\ ex_out.result = NoneIfBlank(Join(SelectSeq(StripAll(ex_matches), NonEmpty), <<",", " ">>))

\* C9 as stated: match_rule largest returns the trimmed match of greatest
\* length, the first in document order among several of that length.
C9_LargestFirstOfTies ==
    (XpathCall("largest") /\ Len(ex_matches) > 0) =>
        ex_out.result = NoneIfBlank(StripAll(ex_matches)[FirstLongest(StripAll(ex_matches))])

\* C9 amended: match_rule largest returns the trimmed match of greatest length
\* (null when it is empty), the LAST in document order among several of that
\* length, and logs nothing.
C9_LargestLastOfTies ==
    (XpathCall("largest") /\ Len(ex_matches) > 0) =>
        /\ ex_out.result = NoneIfBlank(StripAll(ex_matches)[LastLongest(StripAll(ex_matches))])
        /\ ex_out.warnings = 0 /\ ex_out.debugs = 0

\* two different matches share the greatest length
C9_Witness ==
    /\ XpathCall("largest")
    /\ Len(ex_matches) > 1
    /\ LET t == StripAll(ex_matches)
       IN  /\ t[FirstLongest(t)] # t[LastLongest(t)]
           /\ ex_out.result = Str(t[LastLongest(t)])

\* C10 as stated: match_rule single (also when the spec has no match_rule)
\* returns the one match without a warning, and on N>1 matches the first match
\* with exactly one warning.
C10_SingleWarnsOnMany ==
    (XpathCall("single") /\ Len(ex_matches) > 0) =>
        /\ ex_out.result = NoneIfBlank(strip(ex_matches[1]))
        /\ ex_out.warnings = IF Len(ex_matches) = 1 THEN 0 ELSE 1

\* C10 amended: single returns the first match, trimmed (null when it is
\* empty); on one match it warns never, on N>1 matches exactly once when
\* warn_if_missing is true or missing from the spec, and not at all when
\* warn_if_missing is false.
C10_SingleWarnsUnlessSuppressed ==
    (XpathCall("single") /\ Len(ex_matches) > 0) =>
        /\ ex_out.result = NoneIfBlank(strip(ex_matches[1]))
        /\ ex_out.debugs = 0
        /\ ex_out.warnings =
              IF Len(ex_matches) > 1 /\ DictGet(ex_spec, "warn_if_missing", TRUE) THEN 1 ELSE 0

\* a spec without match_rule, several matches, the first returned with one warning
C10_Witness ==
    /\ XpathCall("single")
    /\ "match_rule" \notin DOMAIN ex_spec
    /\ Len(ex_matches) > 1
    /\ ex_out.result = Str(strip(ex_matches[1]))
    /\ ex_out.warnings = 1

(***************************************************************************)
(* Properties of extract_article                                           *)
(***************************************************************************)

SchemaKeys == {"site_name", "article_url", "title", "byline", "publication_datetime",
               "content", "plain_content", "plain_text", "metadata"}

\* C1: the Article returned by extract_article contains all nine schema keys,
\* whatever the config and the document.
C1_AllSchemaKeysPresent == art_out # <<>> => SchemaKeys \subseteq DOMAIN art_out

(***************************************************************************)
(* C11: with match_rule 'all', extract_element returns the list of all the *)
(* selector's matches, each one trimmed, in the selector's order, none     *)
(* dropped, added or reordered; for a selector that matches nothing it     *)
(* returns None, never an empty list.                                      *)
(***************************************************************************)
C11_AllReturnsEveryMatch ==
    XpathCall("all") =>
        IF Len(ex_matches) = 0
        THEN ex_out.result.kind = "None"
        ELSE /\ ex_out.result.kind = "list"
             /\ Len(ex_out.result.value) = Len(ex_matches)
             /\ \A i \in 1..Len(ex_matches) : ex_out.result.value[i] = strip(ex_matches[i])

\* three matches, a blank one between two that need trimming
C11_Witness ==
    /\ XpathCall("all")
    /\ ex_matches = << <<" ", "a">>, <<" ">>, <<"b", "a", " ">> >>
    /\ ex_out.result.kind = "list"

\* no match at all
C11_WitnessNoMatch ==
    /\ XpathCall("all")
    /\ ex_matches = <<>>
    /\ ex_out.result.kind = "None"

(***************************************************************************)
(* C12: extract_element never returns the empty string: for every rule and *)
(* every sequence of matches, a resolved value equal to "" is returned as  *)
(* None.                                                                   *)
(***************************************************************************)
C12_NeverEmptyString ==
    ex_out # NotCalled => ~(ex_out.result.kind = "str" /\ ex_out.result.value = <<>>)

\* a rule that resolves whitespace-only matches to "": None is returned
C12_Witness ==
    /\ XpathCall("concatenate")
    /\ ex_matches = << <<" ">>, <<>> >>
    /\ ex_out.result.kind = "None"

(***************************************************************************)
(* C13 as claimed: for an unrecognized match_rule, and for an unrecognized *)
(* select_method, extract_element returns None, logs one debug message and *)
(* no warning, whatever the number of matches, zero included.              *)
(***************************************************************************)
UnknownRuleCall == XpathCall("bogus")
UnknownMethodCall == ex_out # NotCalled /\ ex_spec.select_method # "xpath"

C13_UnknownRuleOrMethodDebugOnly ==
    (UnknownRuleCall \/ UnknownMethodCall) =>
        /\ ex_out.result.kind = "None"
        /\ ex_out.debugs = 1
        /\ ex_out.warnings = 0

(***************************************************************************)
(* C13 amended: an unrecognized select_method gives None, one debug        *)
(* message and no warning for every number of matches; an unrecognized     *)
(* match_rule does so when the selector matches at least once; when it     *)
(* matches nothing, the result is None with no debug message, and with the *)
(* missing-element warning unless warn_if_missing is false.                *)
(***************************************************************************)
C13_UnknownRuleDebugOnlyWithMatches ==
    /\ UnknownMethodCall =>
            /\ ex_out.result.kind = "None"
            /\ ex_out.debugs = 1
            /\ ex_out.warnings = 0
    /\ (UnknownRuleCall /\ Len(ex_matches) > 0) =>
            /\ ex_out.result.kind = "None"
            /\ ex_out.debugs = 1
            /\ ex_out.warnings = 0
    /\ (UnknownRuleCall /\ Len(ex_matches) = 0) =>
            /\ ex_out.result.kind = "None"
            /\ ex_out.debugs = 0
            /\ ex_out.warnings =
                   (IF "warn_if_missing" \in DOMAIN ex_spec /\ ~ex_spec.warn_if_missing THEN 0 ELSE 1)

\* the unrecognized rule on a selector without matches: the warning, no debug message
C13_Witness ==
    /\ UnknownRuleCall
    /\ ex_matches = <<>>
    /\ ex_out.warnings = 1
    /\ ex_out.debugs = 0

\* the unrecognized rule on a selector with matches
C13_WitnessWithMatches ==
    /\ UnknownRuleCall
    /\ Len(ex_matches) = 2
    /\ ex_out.debugs = 1

(***************************************************************************)
(* Removal of the nodes an expression matches, as the specification and    *)
(* the tests describe it: the matched elements go with their subtrees.     *)
(***************************************************************************)
IsOpenTag(token) == token \in { OpenTag(c) : c \in HtmlClasses }

\* the position of the "</div>" that closes the element opened before position i
RECURSIVE ClosingAt(_, _, _)
ClosingAt(html, i, depth) ==
    IF html[i] = "</div>"
    THEN IF depth = 0 THEN i ELSE ClosingAt(html, i + 1, depth - 1)
    ELSE IF IsOpenTag(html[i]) THEN ClosingAt(html, i + 1, depth + 1)
    ELSE ClosingAt(html, i + 1, depth)

RECURSIVE RemoveMatching(_, _)
RemoveMatching(html, class) ==
    IF html = <<>> THEN <<>>
    ELSE IF html[1] = OpenTag(class)
    THEN RemoveMatching(SubSeq(html, ClosingAt(html, 2, 0) + 1, Len(html)), class)
    ELSE <<html[1]>> \o RemoveMatching(Tail(html), class)

RECURSIVE RemoveAll(_, _)
RemoveAll(html, classes) ==
    IF classes = <<>> THEN html
    ELSE RemoveAll(RemoveMatching(html, Head(classes)), Tail(classes))

RemovalCall == ex_out # NotCalled /\ "remove_expressions" \in DOMAIN ex_spec

(***************************************************************************)
(* C14: with remove_expressions, the HTML extract_element returns contains *)
(* no node that matches any of the removal expressions, also when matching *)
(* nodes are nested in each other in either order, and every node outside  *)
(* the removed subtrees survives unchanged.                                *)
(***************************************************************************)
C14_NoRemovedNodeInResult ==
    RemovalCall =>
        /\ ex_out.result.kind = "str"
        /\ \A i \in 1..Len(ex_out.result.value) :
              \A j \in 1..Len(ex_spec.remove_expressions) :
                 ex_out.result.value[i] # OpenTag(ex_spec.remove_expressions[j])
        /\ ex_out.result.value = RemoveAll(ex_matches[1], ex_spec.remove_expressions)

C16_DatetimeNeverRaises == dt_out.raised = None

(***************************************************************************)
(* C17: when the publication_datetime spec of the config declares          *)
(* `datetime_formats`, extract_article gives the raw date string to        *)
(* extract_datetime_string together with those formats: the article's      *)
(* publication_datetime is the value obtained under the declared format,   *)
(* not the value of a parse without a format.                              *)
(***************************************************************************)
DeclaresDatetimeFormats ==
    /\ art_out # <<>>
    /\ "article" \in DOMAIN art_config
    /\ "publication_datetime" \in DOMAIN art_config.article
    /\ "datetime_formats" \in DOMAIN art_config.article.publication_datetime

C17_DeclaredFormatsAreUsed ==
    DeclaresDatetimeFormats =>
        LET publication_spec == art_config.article.publication_datetime
            datetime_string == ExtractValue(art_doc, publication_spec)
        IN  art_out.publication_datetime =
                extract_datetime_string(art_doc, datetime_string,
                                        Str(publication_spec.datetime_formats[1])).value

(***************************************************************************)
(* C18: at every iteration of load pressing the button pressed is the      *)
(* highest-priority load locator present on the live page: when the        *)
(* handler of a vanished or stale button finds a load locator on the page, *)
(* the next press is made on that locator.                                 *)
(***************************************************************************)
C18_NextPressOnPresentLocator ==
    [][(InLoadPressing /\ pc = "lookup" /\ pc' = "cache")
          => button_to_press' = get_first_button_to_press(load_buttons)]_vars

(***************************************************************************)
(* Steps of the running call, as opposed to steps of the page              *)
(***************************************************************************)
ProgramStep == <<pc, form_idx, button_type>>' # <<pc, form_idx, button_type>>

SamePressing ==
    /\ pc' \in LoopPositions
    /\ button_to_press' = button_to_press
    /\ button_type' = button_type
    /\ form_idx' = form_idx

PressOfPresentButton ==
    /\ pc = "press"
    /\ alive
    /\ button_to_press \in dom
    /\ ProgramStep

(***************************************************************************)
(* C19 as claimed: a not-visible or not-interactable error during a press, *)
(* of a form button as of a load button, never ends the pressing by        *)
(* itself. The press of a button that is on the page of a live session     *)
(* fails with these errors or a stale reference only, so that press never  *)
(* ends the pressing.                                                      *)
(***************************************************************************)
C19_TransientErrorNeverEndsPressing ==
    [][PressOfPresentButton => SamePressing]_vars

(***************************************************************************)
(* C19 amended: during the press of a load button a not-visible or         *)
(* not-interactable error never ends the pressing by itself, and neither   *)
(* does a not-visible error during the press of a form button: the         *)
(* middleware waits for the button and then retries the same button, and   *)
(* the pressing ends there only if that wait times out or the session is   *)
(* lost. A not-interactable error during the press of a form button ends   *)
(* the pressing of that form button at once: no wait is made, the form     *)
(* loop goes on with its next locator.                                     *)
(***************************************************************************)
FormPressingLeft ==
    \/ /\ form_idx < Len(form_buttons)
       /\ form_idx' = form_idx + 1
       /\ button_type' = "form"
       /\ pc' = "cache"
    \/ /\ form_idx = Len(form_buttons)
       /\ pc' \in {"first_load", "else_source"}

C19_TransientErrorWaitsExceptFormNotInteractable ==
    /\ [](pc = "wait_clickable" => button_type = "load")
    /\ [][/\ (PressOfPresentButton /\ button_type = "load") => SamePressing
          /\ (PressOfPresentButton /\ button_type = "form") =>
                 \/ SamePressing /\ pc' \in {"location", "wait_visible", "lookup"}
                 \/ FormPressingLeft
          /\ (pc \in {"wait_visible", "wait_clickable"} /\ ProgramStep) =>
                 \/ SamePressing /\ pc' = "cache"
                 \/ button_type = "form" /\ FormPressingLeft
                 \/ button_type = "load" /\ pc' = "encode"
         ]_vars

\* a load button's press was not interactable: the middleware waits for it
C19_Witness ==
    /\ pc = "wait_clickable"
    /\ button_type = "load"
    /\ button_to_press \in dom
    /\ alive

\* a form button's press was not visible: the middleware waits for it
C19_WitnessForm ==
    /\ pc = "wait_visible"
    /\ button_type = "form"
    /\ button_to_press \in dom
    /\ alive

(***************************************************************************)
(* C20: form pressing visits the form locators in their fixed order of     *)
(* priority, presses each one again and again until its pressing ends, and *)
(* always goes on to the next locator however the pressing of the previous *)
(* one ended; load pressing starts only after every form locator has been  *)
(* visited.                                                                *)
(***************************************************************************)
InFormPressing == pc \in LoopPositions /\ button_type = "form"

C20_WitnessLoad ==
    /\ InLoadPressing
    /\ pc = "press"
    /\ form_idx = Len(form_buttons)

(***************************************************************************)
(* C21: every run of process_response that navigates the browser session   *)
(* ends, whatever ended the pressing, with the session's cookies handed to *)
(* the spider exactly once and with a new response for the request's URL   *)
(* whose body replaces the body of the original response.                  *)
(***************************************************************************)
NavigatedRunEnded ==
    /\ CallEnded
    /\ session_used
    /\ ~(returned.kind = "raised" /\ returned.at = "get")

C21_NavigatedRunHandsCookiesAndResponse ==
    NavigatedRunEnded =>
        /\ returned.kind = "html"
        /\ returned.body \in PageSources
        /\ cookie_updates = 1

(***************************************************************************)
(* What each parser makes of the call's arguments                          *)
(***************************************************************************)
DtCalled == dt_out # DtNotCalled
StrictOutcome == pendulum_datetime_extract(dt_library, dt_string, dt_format)
LenientOutcome == arrow_datetime_extract(dt_library, dt_string, dt_format)

(***************************************************************************)
(* C22: extract_datetime_string tries the strict parser (pendulum) first   *)
(* and the lenient parser (arrow) only when the strict one produced no     *)
(* value; the result is formatted from the first parser that produced a    *)
(* value, and it is None exactly when both produced none.                  *)
(***************************************************************************)
C22_StrictFirstThenLenient ==
    DtCalled =>
        /\ dt_out.calls[1].parser = "pendulum"
        /\ \A i \in 2..Len(dt_out.calls) : dt_out.calls[i].parser = "arrow"
        /\ Len(dt_out.calls) > 1 => StrictOutcome.datetime.kind = "None"
        /\ IF StrictOutcome.datetime.kind # "None"
           THEN dt_out.raised = None /\ dt_out.value = Format(StrictOutcome.datetime)
           ELSE IF LenientOutcome.datetime.kind # "None"
           THEN dt_out.raised = None /\ dt_out.value = Format(LenientOutcome.datetime)
           ELSE dt_out.raised = None /\ dt_out.value.kind = "None"

(***************************************************************************)
(* The formats the lenient parser hands to arrow.get, in order             *)
(***************************************************************************)
IsArrowCall(call) == call.parser = "arrow"
ArrowAttempts ==
    LET arrow_calls == SelectSeq(dt_out.calls, IsArrowCall)
    IN  [i \in 1..Len(arrow_calls) |-> arrow_calls[i].format]

\* the hint of the call has `YY` next to a separator at its start / at its end
HintYearAtStart ==
    /\ dt_format.kind = "str"
    /\ Len(dt_format.value) >= 3
    /\ SubSeq(dt_format.value, 1, 2) = <<"Y", "Y">>
    /\ dt_format.value[3] \in {"-", "/", "."}
HintYearAtEnd ==
    /\ dt_format.kind = "str"
    /\ Len(dt_format.value) >= 3
    /\ SubSeq(dt_format.value, Len(dt_format.value) - 1, Len(dt_format.value)) = <<"Y", "Y">>
    /\ dt_format.value[Len(dt_format.value) - 2] \in {"-", "/", "."}

StartWidened == Str(<<"Y", "Y">> \o dt_format.value)
EndWidened == Str(dt_format.value \o <<"Y", "Y">>)
BothWidened == Str(<<"Y", "Y">> \o dt_format.value \o <<"Y", "Y">>)

\* the lenient parser was entered for a hint that has something to widen
LenientCallOnYearHint ==
    /\ DtCalled
    /\ HintYearAtStart \/ HintYearAtEnd
    /\ Len(dt_out.calls) > 1

\* the part of a list of attempts that is made: up to the first one that parses
RECURSIVE UntilParsed(_)
UntilParsed(formats) ==
    IF formats = <<>> THEN <<>>
    ELSE IF dt_string.kind = "str" /\ Head(formats) \in dt_library.arrow THEN <<Head(formats)>>
    ELSE <<Head(formats)>> \o UntilParsed(Tail(formats))

(***************************************************************************)
(* C23 as claimed: a hint with `YY` next to a separator at its start or    *)
(* its end is first tried widened at that edge only, the unwidened hint    *)
(* only if the widened attempts gave no value, and no attempt is ever made *)
(* with the hint widened at both edges, also when the hint has `YY` at     *)
(* both edges.                                                             *)
(***************************************************************************)
C23_NeverWidenedAtBothEdges ==
    LenientCallOnYearHint =>
        /\ \A i \in 1..Len(ArrowAttempts) : ArrowAttempts[i] # BothWidened
        /\ ArrowAttempts[1] \in {StartWidened, EndWidened}
        /\ \A i \in 1..Len(ArrowAttempts) :
              ArrowAttempts[i] = dt_format => i = Len(ArrowAttempts)

(***************************************************************************)
(* C23 amended: a hint with `YY` next to a separator at one edge only is   *)
(* tried first widened at that edge and never widened at the other edge;   *)
(* a hint with `YY` next to a separator at both edges is tried widened at  *)
(* both edges first, then at its start only, then at both edges again,     *)
(* then at its end only; the unwidened hint is tried last, and every       *)
(* attempt is made only if all the attempts before it gave no value.       *)
(***************************************************************************)
C23_WidenedWhereYearIsThenUnwidened ==
    LenientCallOnYearHint =>
        ArrowAttempts =
            UntilParsed(IF HintYearAtStart /\ HintYearAtEnd
                        THEN <<BothWidened, StartWidened, BothWidened, EndWidened, dt_format>>
                        ELSE IF HintYearAtStart THEN <<StartWidened, dt_format>>
                        ELSE <<EndWidened, dt_format>>)

\* a hint with `YY` at both edges, nothing parses: the five attempts
C23_Witness ==
    /\ LenientCallOnYearHint
    /\ HintYearAtStart /\ HintYearAtEnd
    /\ Len(ArrowAttempts) = 5

\* a hint with `YY` at its end only: the widened attempt fails, the unwidened one parses
C23_WitnessOneEdge ==
    /\ LenientCallOnYearHint
    /\ ~HintYearAtStart
    /\ ArrowAttempts = <<EndWidened, dt_format>>
    /\ dt_out.value.kind = "str"

(***************************************************************************)
(* C26: the widening recursion of arrow_datetime_extract terminates for    *)
(* every format hint of at least three characters: a widened hint is never *)
(* widened again at the same edge, so the call ends without an exception   *)
(* after a bounded number of parse attempts, each on the hint with each of *)
(* its edges widened at most once.                                         *)
(***************************************************************************)
LongHintCall ==
    /\ DtCalled
    /\ dt_format.kind = "str"
    /\ Len(dt_format.value) >= 3

C26_WideningTerminates ==
    LongHintCall =>
        /\ dt_out.raised # "IndexError"
        /\ Len(ArrowAttempts) <= 5
        /\ \A i \in 1..Len(ArrowAttempts) :
              ArrowAttempts[i] \in {dt_format, StartWidened, EndWidened, BothWidened}

\* a hint with `YY` at its start only: the widened attempt, then the unwidened one
C26_Witness ==
    /\ LongHintCall
    /\ HintYearAtStart /\ ~HintYearAtEnd
    /\ ArrowAttempts = <<StartWidened, dt_format>>

(***************************************************************************)
(* C24: without an `article` section in the config, extract_article runs   *)
(* the whole document through parse_to_json exactly once and takes title,  *)
(* byline, content, plain_content and plain_text from its result           *)
(* unchanged; with an `article` section no field comes from a run on the   *)
(* whole document, and parse_to_json is called on the extracted content    *)
(* only, and only when that content is not None.                           *)
(***************************************************************************)
ArticleCalled == art_out # <<>>

ReadabilityFields == {"title", "byline", "content", "plain_content", "plain_text"}

\* what readability makes of field f of the HTML string html
ReadabilityOf(f, html) == [kind |-> "readability", value |-> <<f>> \o html]

WholeDocument == art_doc.matches["/html"][1]

\* the config's content selector (rule 'single') gives a value: its first match, trimmed
ContentExtracted ==
    /\ "article" \in DOMAIN art_config
    /\ "content" \in DOMAIN art_config.article
    /\ art_doc.matches["x_content"] # <<>>
    /\ strip(art_doc.matches["x_content"][1]) # <<>>

ExtractedContent == strip(art_doc.matches["x_content"][1])

C24_WholeDocumentOnlyWithoutArticleSection ==
    ArticleCalled =>
        IF "article" \notin DOMAIN art_config
        THEN /\ Len(art_calls) = 1
             /\ art_calls[1].expression = "/html"
             /\ art_calls[1].html.value = WholeDocument
             /\ \A f \in ReadabilityFields : art_out[f] = ReadabilityOf(f, WholeDocument)
        ELSE /\ \A i \in 1..Len(art_calls) : art_calls[i].expression # "/html"
             /\ art_calls = IF ContentExtracted
                            THEN << [expression |-> "x_content", html |-> Str(ExtractedContent)] >>
                            ELSE <<>>
             /\ \A f \in ReadabilityFields \cap DOMAIN art_out :
                   art_out[f].kind = "readability" =>
                      /\ f \in {"content", "plain_content", "plain_text"}
                      /\ ContentExtracted
                      /\ art_out[f] = ReadabilityOf(f, ExtractedContent)

\* no article section: the one run on the whole document
C24_Witness ==
    /\ ArticleCalled
    /\ "article" \notin DOMAIN art_config
    /\ Len(art_calls) = 1
    /\ art_out.title.kind = "readability"

\* an article section whose content selector matches: the run on the content
C24_WitnessContent ==
    /\ ArticleCalled
    /\ ContentExtracted
    /\ Len(art_calls) = 1
    /\ art_out.content.kind = "readability"

\* an article section whose content is None: no run at all
C24_WitnessNoRun ==
    /\ ArticleCalled
    /\ "article" \in DOMAIN art_config
    /\ "content" \in DOMAIN art_config.article
    /\ ~ContentExtracted
    /\ art_calls = <<>>

(***************************************************************************)
(* C25: with a `metadata` section in the config, the Article's metadata is *)
(* a mapping whose keys are the declared field names, each value being     *)
(* what extract_element gives for that field alone (a field that resolves  *)
(* to None leaves the others as they are); without a `metadata` section,   *)
(* metadata is None and never an empty mapping.                            *)
(***************************************************************************)
\* what the metadata selectors of the configs give: `keywords` with rule
\* 'all', `author` with rule 'single'
KeywordsMatches == art_doc.matches["x_keywords"]
AuthorMatches == art_doc.matches["x_author"]

KeywordsAsExpected(value) ==
    IF KeywordsMatches = <<>>
    THEN value.kind = "None"
    ELSE /\ value.kind = "list"
         /\ Len(value.value) = Len(KeywordsMatches)
         /\ \A i \in 1..Len(KeywordsMatches) : value.value[i] = strip(KeywordsMatches[i])

AuthorAsExpected(value) ==
    IF AuthorMatches = <<>> \/ strip(AuthorMatches[1]) = <<>>
    THEN value.kind = "None"
    ELSE value.kind = "str" /\ value.value = strip(AuthorMatches[1])

C25_MetadataPerDeclaredField ==
    ArticleCalled =>
        /\ "metadata" \in DOMAIN art_out
        /\ IF "metadata" \in DOMAIN art_config
           THEN /\ art_out.metadata.kind = "dict"
                /\ DOMAIN art_out.metadata.value = DOMAIN art_config.metadata
                /\ "keywords" \in DOMAIN art_config.metadata =>
                       KeywordsAsExpected(art_out.metadata.value["keywords"])
                /\ "author" \in DOMAIN art_config.metadata =>
                       AuthorAsExpected(art_out.metadata.value["author"])
           ELSE art_out.metadata.kind = "None"

\* two declared fields, one resolves to None, the other to a value
C25_Witness ==
    /\ ArticleCalled
    /\ "metadata" \in DOMAIN art_config
    /\ DOMAIN art_config.metadata = {"keywords", "author"}
    /\ art_out.metadata.kind = "dict"
    /\ art_out.metadata.value["keywords"].kind = "None"
    /\ art_out.metadata.value["author"].kind = "str"

\* no metadata section: None
C25_WitnessAbsent ==
    /\ ArticleCalled
    /\ "metadata" \notin DOMAIN art_config
    /\ art_out.metadata.kind = "None"

(***************************************************************************)
(* C27: a request URL is added to seen_urls on its first process_response  *)
(* call, before the button check, and is never removed: once a URL has     *)
(* been seen with a response that matched no locator, a later response for *)
(* the same URL that does contain a button is returned unchanged and the   *)
(* session is never driven for that URL.                                   *)
(***************************************************************************)
\* a step taken while no call is running, other than the loss of the session:
\* the entry of process_response
CallStep == pc = "idle" /\ alive' = alive

SeenUndriven(url) ==
    /\ url \in seen_urls
    /\ nav_count[url] = 0
    /\ ~(request.url = url /\ pc # "idle")

C27_SeenUrlNeverDrivenLater ==
    /\ [](request.url \in Urls => request.url \in seen_urls)
    /\ [][/\ seen_urls \subseteq seen_urls'
          /\ (CallStep /\ request'.url \in seen_urls) =>
                 /\ pc' = "idle"
                 /\ returned' = Original
                 /\ nav_count' = nav_count
                 /\ session_used' = FALSE
          /\ \A url \in Urls : SeenUndriven(url) => SeenUndriven(url)'
         ]_vars

\* a URL first seen without a button comes back with a button: returned unchanged
C27_Witness ==
    /\ pc = "idle"
    /\ request.url \in seen_urls
    /\ MatchesKnownLocator(request)
    /\ nav_count[request.url] = 0
    /\ returned = Original
    /\ ~session_used

====
